---------------------------- MODULE Spec2Model ----------------------------
(***************************************************************************)
(* Task-progress synchronisation of the research store                     *)
(* (frontend/src/stores/research.ts) and of the research view that drives  *)
(* it (frontend/src/views/ReportDetail.vue).                               *)
(*                                                                         *)
(* The browser runs every callback to completion on one event loop, so     *)
(* each callback (timer tick, HTTP response, socket event, view hook) is   *)
(* one action.  The job producer, the network and the user are the         *)
(* environment.                                                            *)
(***************************************************************************)
EXTENDS Integers, Sequences, FiniteSets, TLC

----------------------------------------------------------------------------
(* Bounds of the model *)

\* research tasks the user submits in one run
MaxTasks == 1
\* WebSocket objects alive (not yet closed) at the same time
MaxConns == 2
\* HTTP status requests in flight at the same time
MaxInFlight == 1
\* reconnect timeouts pending at the same time
MaxPending == 1
\* cap of the closure counters kept for the reconnect claims
MaxClosures == 4
\* calls of fetchTaskResult in one run
MaxFetches == 2
\* tasks submitted one after the other where the tracked task is replaced
MaxSubmitted == 2
\* conversations of the chat view
MaxConversations == 2
\* requests of the chat view in flight at the same time
MaxLoads == 2
\* HTTP status requests in flight at the same time where requests overlap
MaxOverlap == 2

(* Program constants *)

\* const MAX_WS_RETRIES = 3
MAX_WS_RETRIES == 3
\* setInterval(..., 2000)
POLL_INTERVAL == 2000
\* setTimeout(..., 2000) of the reconnect
RECONNECT_DELAY == 2000

TaskIds == 1..MaxTasks
SubmittedIds == 1..MaxSubmitted
ConnIds == 1..MaxConns
\* progress values the producer reports (percent)
ProgressValues == {0, 25, 40, 100}

NoTask == [null |-> TRUE]
NoFrame == [null |-> TRUE]
Null == 0

Terminal == {"completed", "failed"}
Active == {"pending", "running"}

----------------------------------------------------------------------------
(* The job producer: one record per task id, absent until submitted. *)

Absent == [status |-> "absent", progress |-> 0]

\* stage labels the producer reports with a state; null while pending
AgentOf(st) == IF st.status = "running" THEN "researcher" ELSE "null"
StageOf(st) == IF st.status = "running" THEN "collecting" ELSE "null"
EstimateOf(st) == IF st.status = "running" THEN 100 - st.progress ELSE 0
\* the failure reason the producer reports with a failed task
ReasonOf(st) == IF st.status = "failed" THEN "reason" ELSE "null"

\* body of GET /research/{id}/status: a ResearchTask
TaskBody(id, st) ==
  [id |-> id, status |-> st.status, progress |-> st.progress,
   current_agent |-> AgentOf(st), current_task |-> StageOf(st),
   estimated_time |-> EstimateOf(st),
   report_data |-> "null", error_message |-> ReasonOf(st)]

\* the report of GET /research/{id}/result, served for a completed task only
ReportOf(st) == IF st.status = "completed" THEN "report" ELSE "null"

\* a status frame of the progress stream
StatusFrame(st) ==
  [type |-> "status", status |-> st.status, progress |-> st.progress,
   currentAgent |-> AgentOf(st), currentTask |-> StageOf(st),
   estimatedTime |-> EstimateOf(st)]

\* JavaScript's  x || ''  on a label
OrEmpty(x) == IF x \in {"null", "undefined", ""} THEN "" ELSE x

\* JavaScript's undefined: the value of a field a JSON object does not have;
\* in a numeric field it is written as a number no producer reports
Undefined == "undefined"
UndefinedNumber == 0 - 1
\* JavaScript's  x || 0  on a number
OrZero(x) == IF x = UndefinedNumber THEN 0 ELSE x

\* Texts a message event can carry.  A JSON text is written as the value
\* JSON.parse returns for it, any other text as a token.
JsonNull == [null |-> TRUE]
EmptyObject ==
  [type |-> Undefined, status |-> Undefined, progress |-> UndefinedNumber,
   currentAgent |-> Undefined, currentTask |-> Undefined,
   estimatedTime |-> UndefinedNumber]
HeartbeatText ==
  [json |-> TRUE, label |-> "heartbeat",
   value |-> [EmptyObject EXCEPT !.type = "heartbeat"]]
\* the text  {}  or an object without the status fields, as an error notice
ObjectText == [json |-> TRUE, label |-> "malformed", value |-> EmptyObject]
\* the text  null
NullText == [json |-> TRUE, label |-> "malformed", value |-> JsonNull]
\* a text that is not JSON, as a truncated frame
BrokenText == [json |-> FALSE, label |-> "malformed", value |-> JsonNull]
HeartbeatTexts == {HeartbeatText}
MalformedTexts == {ObjectText, NullText, BrokenText}

\* JSON.parse: the value, or a SyntaxError
JSONparse(text) ==
  IF text.json THEN [ok |-> TRUE, value |-> text.value]
               ELSE [ok |-> FALSE, value |-> JsonNull]

----------------------------------------------------------------------------
(* The store.  Store operators take and return the record of the store's   *)
(* mutable state, so that a handler is the composition of the functions it *)
(* calls.                                                                  *)

VARIABLES
  currentTask,    \* ref<ResearchTask | null>
  progress,       \* ref<ResearchProgress>
  wsConnection,   \* ref<WebSocket | null>: a connection id, or Null
  pollingTimer,   \* handle of the interval timer, or Null
  wsRetryCount,   \* reconnect attempt counter
  error,          \* ref<string | null>
  isLoading,      \* ref(false)
  sockets,        \* WebSocket objects: id -> [state, task]
  timers,         \* active interval timers: set of [id, task, interval]
  reconnects,     \* pending reconnect timeouts: the sequence of their delays
  http,           \* status requests in flight
  server,         \* producer state per task id
  mounted,        \* task id the research view is mounted for, or Null
  results,        \* result requests in flight
  fetchCount,     \* history: calls of fetchTaskResult so far
  lastEvent,      \* history: the callback that ran last
  tracking,       \* history: "idle", "active", or the stop condition met
  runClosures,    \* history: closures while researching since the last open
  runScheduled,   \* history: reconnects scheduled since the last open
  closedFor,      \* history: per pending reconnect, the task of the
                  \* connection whose closure scheduled it
  token,          \* localStorage[TOKEN_KEY]: the stored token, or "null"
  route,          \* the router's current location
  lastNav,        \* history: the navigation that ran last
  currentConversation, \* chat view: ref<Conversation | null>
  messages,       \* chat view: ref<Message[]>
  chatLoading,    \* chat view: its isLoading ref
  ws,             \* chat view: conversation of its WebSocket, or Null
  loads           \* chat view: its requests in flight, in the order issued

storeVars == <<currentTask, progress, wsConnection, pollingTimer, wsRetryCount,
               error, isLoading, sockets, timers, reconnects>>
envVars == <<http, server, mounted>>
histVars == <<lastEvent, tracking, runClosures, runScheduled, closedFor>>
routerVars == <<token, route, lastNav>>
chatVars == <<currentConversation, messages, chatLoading, ws, loads>>
pageVars == <<routerVars, chatVars>>
viewVars == <<results, fetchCount, pageVars>>
vars == <<storeVars, envVars, histVars, viewVars>>

Store ==
  [currentTask |-> currentTask, progress |-> progress,
   wsConnection |-> wsConnection, pollingTimer |-> pollingTimer,
   wsRetryCount |-> wsRetryCount, error |-> error, isLoading |-> isLoading,
   sockets |-> sockets, timers |-> timers, reconnects |-> reconnects]

SetStore(s) ==
  /\ currentTask' = s.currentTask
  /\ progress' = s.progress
  /\ wsConnection' = s.wsConnection
  /\ pollingTimer' = s.pollingTimer
  /\ wsRetryCount' = s.wsRetryCount
  /\ error' = s.error
  /\ isLoading' = s.isLoading
  /\ sockets' = s.sockets
  /\ timers' = s.timers
  /\ reconnects' = s.reconnects

InitialProgress ==
  [status |-> "pending", progress |-> 0, currentAgent |-> "",
   currentTask |-> "", estimatedTime |-> 0]

FreeSocket == [state |-> "free", task |-> 0]

\* mutant: a task in any status counts as being researched
isResearching_anyStatus(s) == s.currentTask # NoTask

\* computed isResearching
isResearching(s) ==
  /\ s.currentTask # NoTask
  /\ s.currentTask.status \in {"running", "pending"}

\* WebSocket.close(): a connecting or open socket starts closing; its close
\* event is delivered later.  Closing an already closing socket does nothing.
close(socks, c) ==
  IF socks[c].state \in {"connecting", "open"}
    THEN [socks EXCEPT ![c].state = "closing"]
    ELSE socks

stopPolling(s) ==
  IF s.pollingTimer # Null
    THEN [s EXCEPT !.timers = {t \in s.timers : t.id # s.pollingTimer},
                   !.pollingTimer = Null]
    ELSE s

stopStatusSync(s) ==
  LET s1 == IF s.wsConnection # Null
              THEN [s EXCEPT !.sockets = close(s.sockets, s.wsConnection),
                             !.wsConnection = Null]
              ELSE s
  IN stopPolling(s1)

FreeTimerId(s) == CHOOSE i \in 1..(Cardinality(s.timers) + 1) :
                    \A t \in s.timers : t.id # i

startPolling(s, taskId) ==
  LET s1 == stopPolling(s)
      id == FreeTimerId(s1)
  IN [s1 EXCEPT !.timers = s1.timers \cup
                   {[id |-> id, task |-> taskId, interval |-> POLL_INTERVAL]},
                !.pollingTimer = id]

\* mutant: the reported progress is added to the held one
updateFromTask_delta(s, task) ==
  [s EXCEPT !.currentTask = task,
            !.progress = [status |-> task.status,
                          progress |-> s.progress.progress + task.progress,
                          currentAgent |-> OrEmpty(task.current_agent),
                          currentTask |-> OrEmpty(task.current_task),
                          estimatedTime |-> OrZero(task.estimated_time)]]

updateFromTask(s, task) ==
  [s EXCEPT !.currentTask = task,
            !.progress = [status |-> task.status,
                          progress |-> task.progress,
                          currentAgent |-> OrEmpty(task.current_agent),
                          currentTask |-> OrEmpty(task.current_task),
                          estimatedTime |-> OrZero(task.estimated_time)]]

FreeConns(s) == {c \in ConnIds : s.sockets[c].state = "free"}
NewConn(s) == CHOOSE c \in FreeConns(s) : \A d \in FreeConns(s) : c <= d

\* created = FALSE: createProgressWebSocket throws and the catch logs it
connectWebSocket(s, taskId, created) ==
  LET s1 == IF s.wsConnection # Null
              THEN [s EXCEPT !.sockets = close(s.sockets, s.wsConnection)]
              ELSE s
  IN IF created
       THEN [s1 EXCEPT !.sockets[NewConn(s1)] =
                          [state |-> "connecting", task |-> taskId],
                       !.wsConnection = NewConn(s1)]
       ELSE s1

\* mutant: polling starts only if the connection was created
startStatusSync_needsSocket(s, taskId, created) ==
  LET s1 == connectWebSocket([s EXCEPT !.wsRetryCount = 0], taskId, created)
  IN IF created THEN startPolling(s1, taskId) ELSE s1

startStatusSync(s, taskId, created) ==
  startPolling(connectWebSocket([s EXCEPT !.wsRetryCount = 0], taskId, created),
               taskId)

resetProgress(s) == [s EXCEPT !.progress = InitialProgress]

\* mutant: the progress record is left as it is
cleanup_keepsProgress(s) == [stopStatusSync(s) EXCEPT !.currentTask = NoTask]

cleanup(s) == resetProgress([stopStatusSync(s) EXCEPT !.currentTask = NoTask])


----------------------------------------------------------------------------
(* Callbacks of the store, as functions of the store state *)

\* body of the setInterval callback after  await getTaskStatus  resolved
pollResolved(s, task) ==
  LET s1 == updateFromTask(s, task)
  IN IF task.status = "completed" \/ task.status = "failed"
       THEN stopStatusSync(s1)
       ELSE s1

\* mutant: a failed poll ends the polling
pollRejected_stops(s) == stopPolling(s)

\* catch of the setInterval callback: console.error only
pollRejected(s) == s

\* mutant: a frame updates the progress record only
applyFrame_progressOnly(s, data) ==
  [s EXCEPT !.progress =
     [status |-> data.status,
      progress |-> data.progress,
      currentAgent |-> OrEmpty(data.currentAgent),
      currentTask |-> OrEmpty(data.currentTask),
      estimatedTime |-> OrZero(data.estimatedTime)]]

\* the snapshot part of ws.onmessage for a status frame
applyFrame(s, data) ==
  LET s1 == [s EXCEPT !.progress =
                [status |-> data.status,
                 progress |-> data.progress,
                 currentAgent |-> OrEmpty(data.currentAgent),
                 currentTask |-> OrEmpty(data.currentTask),
                 estimatedTime |-> OrZero(data.estimatedTime)]]
  IN IF s1.currentTask # NoTask
       THEN [s1 EXCEPT !.currentTask.status = data.status,
                       !.currentTask.progress = data.progress,
                       !.currentTask.current_agent = data.currentAgent,
                       !.currentTask.current_task = data.currentTask]
       ELSE s1

\* mutant: a failed frame does not stop the synchronisation
onmessage_onlyCompleted(s, data) ==
  IF data.type = "heartbeat"
    THEN s
    ELSE LET s1 == applyFrame(s, data)
         IN IF data.status = "completed" THEN stopStatusSync(s1) ELSE s1

onmessage(s, data) ==
  IF data.type = "heartbeat"
    THEN s
    ELSE LET s1 == applyFrame(s, data)
         IN IF data.status = "completed" \/ data.status = "failed"
              THEN stopStatusSync(s1)
              ELSE s1

\* mutant: the type of the frame is not looked at
onmessageText_anyType(s, text) ==
  LET parsed == JSONparse(text)
  IN IF ~parsed.ok \/ parsed.value = JsonNull
       THEN s
       ELSE LET s1 == applyFrame(s, parsed.value)
            IN IF parsed.value.status \in Terminal THEN stopStatusSync(s1)
                                                  ELSE s1

\* ws.onmessage on the text of the event: a SyntaxError of JSON.parse and the
\* TypeError of reading a field of null are caught and logged
onmessageText(s, text) ==
  LET parsed == JSONparse(text)
  IN IF ~parsed.ok \/ parsed.value = JsonNull
       THEN s
       ELSE onmessage(s, parsed.value)

\* mutant: the counter is left as it is
onopen_keeps(s) == s

onopen(s) == [s EXCEPT !.wsRetryCount = 0]

\* mutant: the counter is not bounded
shouldReconnect_unbounded(s) == isResearching(s)

\* mutant: the retry bound is off by one
shouldReconnect_le(s) == s.wsRetryCount <= MAX_WS_RETRIES /\ isResearching(s)

\* the guard of the reconnect in ws.onclose
shouldReconnect(s) == s.wsRetryCount < MAX_WS_RETRIES /\ isResearching(s)

\* mutant: the exhaustion of the reconnect attempts is reported in error
onclose_surfaced(s) ==
  LET s1 == [s EXCEPT !.wsConnection = Null]
  IN IF shouldReconnect(s1)
       THEN [s1 EXCEPT !.wsRetryCount = s1.wsRetryCount + 1,
                       !.reconnects = Append(s1.reconnects, RECONNECT_DELAY)]
       ELSE IF isResearching(s1) THEN [s1 EXCEPT !.error = "connection lost"]
                                 ELSE s1

\* ws.onerror: console.error only
onerror(s) == s

onclose(s) ==
  LET s1 == [s EXCEPT !.wsConnection = Null]
  IN IF shouldReconnect(s1)
       THEN [s1 EXCEPT !.wsRetryCount = s1.wsRetryCount + 1,
                       !.reconnects = Append(s1.reconnects, RECONNECT_DELAY)]
       ELSE s1

\* mutant: the callback connects without looking at the task again
reconnectFired_unchecked(s, created) ==
  LET s1 == [s EXCEPT !.reconnects = Tail(s.reconnects)]
  IN IF s1.currentTask # NoTask
       THEN connectWebSocket(s1, s1.currentTask.id, created)
       ELSE IF created
              THEN [s1 EXCEPT !.sockets[NewConn(s1)] =
                                 [state |-> "connecting", task |-> 0],
                              !.wsConnection = NewConn(s1)]
              ELSE s1

\* the setTimeout callback of ws.onclose
reconnectFired(s, created) ==
  LET s1 == [s EXCEPT !.reconnects = Tail(s.reconnects)]
  IN IF s1.currentTask # NoTask /\ isResearching(s1)
       THEN connectWebSocket(s1, s1.currentTask.id, created)
       ELSE s1

\* mutant: the progress is taken from the fetched task instead of being reset
startResolved_fromTask(s, task, created) ==
  [startStatusSync(updateFromTask(s, task), task.id, created)
     EXCEPT !.isLoading = FALSE]

\* the user-facing text of a failure without a message:  '启动研究失败'
StartFailedText == "start research failed"

\* JavaScript's  err.message || text
OrText(message, text) == IF message = "" THEN text ELSE message

\* messages a rejected request carries
Messages == {"Network Error", ""}

\* startResearch from its first statement to the first await
startCalled(s) == [s EXCEPT !.isLoading = TRUE, !.error = "null"]

\* startResearch after both awaits resolved, with the finally block
startResolved(s, task, created) ==
  LET s1 == resetProgress([s EXCEPT !.currentTask = task])
      s2 == [s1 EXCEPT !.progress.status = task.status]
  IN [startStatusSync(s2, task.id, created) EXCEPT !.isLoading = FALSE]

\* mutant: the failure drops the tracked task
startRejected_clears(s, message) ==
  [store |-> [cleanup(s) EXCEPT !.error = OrText(message, StartFailedText),
                                !.isLoading = FALSE],
   thrown |-> TRUE]

\* startResearch after one of its awaits rejected: catch and finally; thrown
\* tells whether the call ends by throwing to its caller
startRejected(s, message) ==
  [store |-> [s EXCEPT !.error = OrText(message, StartFailedText),
                       !.isLoading = FALSE],
   thrown |-> TRUE]

\* mutant: the channels are started whatever the fetched status is
mountResolved_always(s, taskId, task, created) ==
  startStatusSync(updateFromTask(s, task), taskId, created)

\* onMounted of the research view after  await store.fetchTaskStatus
mountResolved(s, taskId, task, created) ==
  LET s1 == updateFromTask(s, task)
  IN IF s1.currentTask.status = "running" \/ s1.currentTask.status = "pending"
       THEN startStatusSync(s1, taskId, created)
       ELSE s1

\* catch of fetchTaskStatus: error.value = err.message
fetchFailed(s) == [s EXCEPT !.error = "fetch failed"]

\* mutant: the report is attached to whatever task is tracked
fetchTaskResultResolved_anyTask(s, taskId, report) ==
  [store |-> IF s.currentTask # NoTask
               THEN [s EXCEPT !.currentTask.report_data = report]
               ELSE s,
   thrown |-> FALSE, returned |-> report]

\* fetchTaskResult after  await getTaskResult  resolved; thrown tells whether
\* the call ends by throwing to its caller, returned is what it returns
fetchTaskResultResolved(s, taskId, report) ==
  [store |-> IF s.currentTask # NoTask /\ s.currentTask.id = taskId
               THEN [s EXCEPT !.currentTask.report_data = report]
               ELSE s,
   thrown |-> FALSE, returned |-> report]

\* mutant: the catch records the error and does not rethrow it
fetchTaskResultRejected_swallowed(s) ==
  [store |-> [s EXCEPT !.error = "result failed"], thrown |-> FALSE]

\* catch of fetchTaskResult: error.value = err.message; throw e
fetchTaskResultRejected(s) ==
  [store |-> [s EXCEPT !.error = "result failed"], thrown |-> TRUE]


----------------------------------------------------------------------------
(* History variables *)

EnvEvent == [op |-> "env"]
StoreEvent(op, task, frame, stop) ==
  [op |-> op, task |-> task, frame |-> frame, stop |-> stop]

Min(a, b) == IF a < b THEN a ELSE b

\* a stop condition: an explicit stop is remembered until tracking restarts
Stopped(how) == IF tracking = "cancelled" THEN "cancelled" ELSE how

KeepRun == UNCHANGED <<runClosures, runScheduled, closedFor>>
ResetRun == runClosures' = 0 /\ runScheduled' = 0 /\ UNCHANGED closedFor

----------------------------------------------------------------------------
(* The router (route table and guard) and the token store of api/auth.ts *)

\* localStorage.getItem of a key that is not stored
NoToken == "null"
\* access tokens a login response carries
Tokens == {"jwt"}

getToken == token

\* JavaScript's  !!x  on a string or null
Truthy(x) == x \notin {"null", "undefined", ""}

isAuthenticated == Truthy(getToken)

ConversationIds == 1..MaxConversations

NoRedirect == [null |-> TRUE]
\* a location: the name of the route it matches, the id in its path (0 where
\* the path has none) and the redirect entry of its query
Location(name, param) == [name |-> name, param |-> param, redirect |-> NoRedirect]
\* to.fullPath, as the pair that determines it
fullPath(loc) == [name |-> loc.name, param |-> loc.param]

\* START_LOCATION: the location before the first navigation
StartLocation == Location("Start", 0)

\* the entries of  routes  with their meta
RouteNames == {"Login", "Home", "Chat", "Research", "ReportDetail", "History"}
meta(name) ==
  CASE name = "Login" -> [requiresAuth |-> FALSE, guest |-> TRUE]
    [] name \in RouteNames \ {"Login"} -> [requiresAuth |-> TRUE, guest |-> FALSE]
    [] OTHER -> [requiresAuth |-> FALSE, guest |-> FALSE]

\* locations a navigation can ask for: every route, and a path that matches
\* no route (its meta is empty)
Targets ==
  {Location("Login", 0), Location("Home", 0), Location("History", 0),
   Location("Research", 1), Location("ReportDetail", 1),
   Location("NotFound", 0)}
  \cup {Location("Chat", c) : c \in ConversationIds}

\* mutant: the guard has no branch for guest-only routes
beforeEach_noGuest(to, authenticated) ==
  IF meta(to.name).requiresAuth /\ ~authenticated
    THEN [name |-> "Login", param |-> 0, redirect |-> fullPath(to)]
    ELSE to

\* router.beforeEach: the location handed to next(), to itself for next()
beforeEach(to, authenticated) ==
  IF meta(to.name).requiresAuth /\ ~authenticated
    THEN [name |-> "Login", param |-> 0, redirect |-> fullPath(to)]
    ELSE IF meta(to.name).guest /\ authenticated
           THEN Location("Home", 0)
           ELSE to

\* a navigation: a redirect of the guard is a navigation of its own and
\* passes the guard again
navigate(to, authenticated) ==
  LET first == beforeEach(to, authenticated)
  IN IF first = to THEN to ELSE beforeEach(first, authenticated)

----------------------------------------------------------------------------
(* The chat view (views/HistoryView.vue), as functions of its state *)

NoConversation == [null |-> TRUE]
\* body of GET /conversations/{id}
ConversationOf(c) == [id |-> c]
MessagesOf(c) == <<[conversation_id |-> c, role |-> "user"]>>

\* computed conversationId: route.params.conversationId
conversationIdOf(loc) == IF loc.name = "Chat" THEN loc.param ELSE Null
conversationId == conversationIdOf(route)

Chat ==
  [currentConversation |-> currentConversation, messages |-> messages,
   chatLoading |-> chatLoading, ws |-> ws, loads |-> loads]

SetChat(v) ==
  /\ currentConversation' = v.currentConversation
  /\ messages' = v.messages
  /\ chatLoading' = v.chatLoading
  /\ ws' = v.ws
  /\ loads' = v.loads

\* the view as set up, before onMounted
NewChat ==
  [currentConversation |-> NoConversation, messages |-> <<>>,
   chatLoading |-> FALSE, ws |-> Null, loads |-> <<>>]

RemoveAt(seq, i) == SubSeq(seq, 1, i - 1) \o SubSeq(seq, i + 1, Len(seq))

\* loadConversation up to its await, for the selected conversation id
loadConversation(v, id) ==
  IF id = Null
    THEN v
    ELSE [v EXCEPT !.chatLoading = TRUE,
                   !.loads = Append(v.loads, [kind |-> "conversation",
                                              conv |-> id])]

\* loadConversation after its await resolved: the response is shown,
\* connectWebSocket connects for the id selected now, finally
loadResolved(v, i, id) ==
  [v EXCEPT !.currentConversation = ConversationOf(v.loads[i].conv),
            !.messages = MessagesOf(v.loads[i].conv),
            !.ws = id,
            !.chatLoading = FALSE,
            !.loads = RemoveAt(v.loads, i)]

\* onMounted: loadConversations is in flight
chatMounted == [NewChat EXCEPT !.loads = <<[kind |-> "list", conv |-> Null]>>]

\* the view after the route changed from old to new: it is mounted, its
\* watcher of conversationId runs, or it is unmounted
routeChanged(v, old, new) ==
  IF new.name # "Chat" THEN NewChat
  ELSE IF old.name # "Chat" THEN chatMounted
  ELSE IF new.param # old.param THEN loadConversation(v, new.param)
  ELSE v

----------------------------------------------------------------------------
(* Initial state: the store as constructed, no task submitted *)

SetInitialChat ==
  /\ currentConversation = NewChat.currentConversation
  /\ messages = NewChat.messages
  /\ chatLoading = NewChat.chatLoading
  /\ ws = NewChat.ws
  /\ loads = NewChat.loads

InitWith(ids) ==
  /\ currentTask = NoTask
  /\ progress = InitialProgress
  /\ wsConnection = Null
  /\ pollingTimer = Null
  /\ wsRetryCount = 0
  /\ error = "null"
  /\ isLoading = FALSE
  /\ sockets = [c \in ConnIds |-> FreeSocket]
  /\ timers = {}
  /\ reconnects = <<>>
  /\ http = {}
  /\ server = [t \in ids |-> Absent]
  /\ mounted = Null
  /\ results = {}
  /\ fetchCount = 0
  /\ lastEvent = [op |-> "init"]
  /\ tracking = "idle"
  /\ runClosures = 0
  /\ runScheduled = 0
  /\ closedFor = <<>>
  /\ token = NoToken
  /\ route = StartLocation
  /\ lastNav = [op |-> "init"]
  /\ SetInitialChat

Init == InitWith(TaskIds)

----------------------------------------------------------------------------
(* The job producer: pending -> running -> completed | failed, progress     *)
(* rising while running and 100 on completion                              *)

EnvStep == /\ lastEvent' = EnvEvent
           /\ UNCHANGED <<tracking, runClosures, runScheduled,
               closedFor>>

ProducerStart(t) ==
  /\ server[t].status = "pending"
  /\ server' = [server EXCEPT ![t].status = "running"]
  /\ UNCHANGED <<storeVars, http, mounted>>
  /\ EnvStep

ProducerAdvance(t) ==
  /\ server[t].status = "running"
  /\ \E p \in ProgressValues :
       /\ p > server[t].progress /\ p < 100
       /\ server' = [server EXCEPT ![t].progress = p]
  /\ UNCHANGED <<storeVars, http, mounted>>
  /\ EnvStep

ProducerComplete(t) ==
  /\ server[t].status = "running"
  /\ server' = [server EXCEPT ![t] = [status |-> "completed", progress |-> 100]]
  /\ UNCHANGED <<storeVars, http, mounted>>
  /\ EnvStep

ProducerFail(t) ==
  /\ server[t].status = "running"
  /\ server' = [server EXCEPT ![t].status = "failed"]
  /\ UNCHANGED <<storeVars, http, mounted>>
  /\ EnvStep

----------------------------------------------------------------------------
(* HTTP: a status request is answered by the producer's state at that time *)

Request(kind, t) == [kind |-> kind, task |-> t, phase |-> "req", body |-> NoTask]

ServerAnswer(r) ==
  /\ r \in http /\ r.phase = "req"
  /\ http' = (http \ {r}) \cup
       {[r EXCEPT !.phase = "resp", !.body = TaskBody(r.task, server[r.task])]}
  /\ UNCHANGED <<storeVars, server, mounted>>
  /\ EnvStep

----------------------------------------------------------------------------
(* startResearch *)

\* POST /research/start succeeded; GET status is in flight.  At most n
\* requests are in flight afterwards.
StartResearchUpTo(t, n) ==
  /\ server[t] = Absent
  /\ \A u \in DOMAIN server : u < t => server[u] # Absent
  /\ Cardinality(http) < n
  /\ server' = [server EXCEPT ![t] = [status |-> "pending", progress |-> 0]]
  /\ http' = http \cup {Request("start", t)}
  /\ SetStore(startCalled(Store))
  /\ lastEvent' = StoreEvent("startResearch", t, NoFrame, FALSE)
  /\ UNCHANGED <<mounted, tracking, runClosures, runScheduled,
               closedFor>>

StartResearch(t) == StartResearchUpTo(t, MaxInFlight)

StartResolved(r, created) ==
  /\ r \in http /\ r.kind = "start" /\ r.phase = "resp"
  /\ created => FreeConns(Store) # {}
  /\ http' = http \ {r}
  /\ SetStore(startResolved(Store, r.body, created))
  /\ lastEvent' = StoreEvent("start", r.task, r.body, FALSE)
  /\ tracking' = "active"
  /\ ResetRun
  /\ UNCHANGED <<server, mounted>>

\* startResearch is called: POST /research/start is in flight.  At most n
\* requests are in flight afterwards.
StartCalled(t, n) ==
  /\ server[t] = Absent
  /\ \A u \in DOMAIN server : u < t => server[u] # Absent
  /\ \A r \in http : r.task # t
  /\ Cardinality(http) < n
  /\ http' = http \cup {[Request("start", t) EXCEPT !.phase = "post"]}
  /\ SetStore(startCalled(Store))
  /\ lastEvent' = StoreEvent("startResearch", t, NoFrame, FALSE)
  /\ UNCHANGED <<server, mounted, tracking, runClosures, runScheduled,
               closedFor>>

\* the POST is accepted: the task exists, and GET status is in flight
StartAccepted(r) ==
  /\ r \in http /\ r.kind = "start" /\ r.phase = "post"
  /\ server' = [server EXCEPT ![r.task] = [status |-> "pending", progress |-> 0]]
  /\ http' = (http \ {r}) \cup {[r EXCEPT !.phase = "req"]}
  /\ UNCHANGED <<storeVars, mounted>>
  /\ EnvStep

\* one of the two requests of startResearch is rejected: the POST (at =
\* "submission") or the status fetch that follows it (at = "status")
StartFailed(r, message) ==
  /\ r \in http /\ r.kind = "start" /\ r.phase \in {"post", "req"}
  /\ http' = http \ {r}
  /\ LET out == startRejected(Store, message)
     IN /\ SetStore(out.store)
        /\ lastEvent' = [op |-> "startFailed", task |-> r.task,
                         at |-> IF r.phase = "post" THEN "submission"
                                                    ELSE "status",
                         message |-> message, thrown |-> out.thrown]
  /\ UNCHANGED <<server, mounted, tracking, runClosures, runScheduled,
               closedFor>>

----------------------------------------------------------------------------
(* Polling *)

\* the interval timer fires: getTaskStatus is called, whether or not the
\* request of an earlier tick is still in flight.  At most n requests are in
\* flight afterwards.
PollTickUpTo(t, n) ==
  /\ t \in timers
  /\ Cardinality(http) < n
  /\ http' = http \cup {Request("poll", t.task)}
  /\ UNCHANGED <<storeVars, server, mounted>>
  /\ EnvStep

PollTick(t) == PollTickUpTo(t, MaxInFlight)

PollResolved(r) ==
  /\ r \in http /\ r.kind = "poll" /\ r.phase = "resp"
  /\ http' = http \ {r}
  /\ SetStore(pollResolved(Store, r.body))
  /\ lastEvent' = StoreEvent("poll", r.task, r.body,
                           r.body.status \in Terminal)
  /\ tracking' = IF r.body.status \in Terminal THEN Stopped("terminal")
                 ELSE tracking
  /\ KeepRun
  /\ UNCHANGED <<server, mounted>>

PollFailed(r) ==
  /\ r \in http /\ r.kind = "poll" /\ r.phase = "req"
  /\ http' = http \ {r}
  /\ SetStore(pollRejected(Store))
  /\ lastEvent' = StoreEvent("pollFailed", r.task, NoFrame, FALSE)
  /\ UNCHANGED <<server, mounted, tracking, runClosures, runScheduled,
               closedFor>>

----------------------------------------------------------------------------
(* The push connection *)

OnOpen(c) ==
  /\ sockets[c].state = "connecting"
  /\ SetStore(onopen([Store EXCEPT !.sockets[c].state = "open"]))
  /\ lastEvent' = StoreEvent("open", sockets[c].task,
                             [retries |-> wsRetryCount], FALSE)
  /\ ResetRun
  /\ UNCHANGED <<envVars, tracking>>

\* A status frame arrives on an open socket.  The producer pushes its state
\* of the moment; a socket that is closing or closed delivers no message
\* event, so frames still on the wire when close() ran are never seen.
OnMessage(c) ==
  /\ sockets[c].state = "open"
  /\ LET data == StatusFrame(server[sockets[c].task])
     IN /\ SetStore(onmessage(Store, data))
        /\ lastEvent' = StoreEvent("push", sockets[c].task, data,
                                   data.status \in Terminal)
        /\ tracking' = IF data.status \in Terminal THEN Stopped("terminal")
                       ELSE tracking
  /\ KeepRun
  /\ UNCHANGED envVars

\* a heartbeat, or a text that is no status frame, arrives on an open socket
OnMessageText(c, text) ==
  /\ sockets[c].state = "open"
  /\ SetStore(onmessageText(Store, text))
  /\ lastEvent' = StoreEvent(text.label, sockets[c].task, text, FALSE)
  /\ UNCHANGED <<envVars, tracking, runClosures, runScheduled,
               closedFor>>

\* the error event of socket c; the close event follows it
OnError(c) ==
  /\ sockets[c].state \in {"connecting", "open"}
  /\ SetStore(onerror(Store))
  /\ lastEvent' = StoreEvent("error", sockets[c].task, NoFrame, FALSE)
  /\ KeepRun
  /\ UNCHANGED <<envVars, tracking>>

\* the close event of socket c: after close(), or because the network or the
\* server ended the connection
OnClose(c) ==
  /\ sockets[c].state \in {"connecting", "open", "closing"}
  /\ shouldReconnect(Store) => Len(reconnects) < MaxPending
  /\ SetStore(onclose([Store EXCEPT !.sockets[c] = FreeSocket]))
  /\ lastEvent' = [op |-> "close", task |-> sockets[c].task,
                   was |-> sockets[c].state,
                   researching |-> isResearching(Store),
                   scheduled |-> shouldReconnect(Store)]
  /\ runClosures' = IF isResearching(Store)
                      THEN Min(runClosures + 1, MaxClosures) ELSE runClosures
  /\ runScheduled' = IF shouldReconnect(Store)
                       THEN runScheduled + 1 ELSE runScheduled
  /\ closedFor' = IF shouldReconnect(Store)
                    THEN Append(closedFor, sockets[c].task) ELSE closedFor
  /\ UNCHANGED <<envVars, tracking>>

ReconnectFired(created) ==
  /\ reconnects # <<>>
  /\ created => FreeConns(Store) # {}
  /\ SetStore(reconnectFired(Store, created))
  /\ lastEvent' = [op |-> "reconnect",
                   attempted |-> isResearching(Store), created |-> created]
  /\ closedFor' = Tail(closedFor)
  /\ UNCHANGED <<runClosures, runScheduled>>
  /\ UNCHANGED <<envVars, tracking>>

----------------------------------------------------------------------------
(* The research view *)

Mount(t) ==
  /\ mounted = Null
  /\ server[t] # Absent
  /\ Cardinality(http) < MaxInFlight
  /\ mounted' = t
  /\ http' = http \cup {Request("mount", t)}
  /\ lastEvent' = StoreEvent("mountView", t, NoFrame, FALSE)
  /\ UNCHANGED <<storeVars, server, tracking, runClosures, runScheduled,
               closedFor>>

MountResolved(r, created) ==
  /\ r \in http /\ r.kind = "mount" /\ r.phase = "resp"
  /\ created => FreeConns(Store) # {}
  /\ http' = http \ {r}
  /\ SetStore(mountResolved(Store, r.task, r.body, created))
  /\ lastEvent' = StoreEvent("mount", r.task, r.body, FALSE)
  /\ IF r.body.status \in Active
       THEN tracking' = "active" /\ ResetRun
       ELSE UNCHANGED tracking /\ KeepRun
  /\ UNCHANGED <<server, mounted>>

MountFailed(r) ==
  /\ r \in http /\ r.kind = "mount" /\ r.phase = "req"
  /\ http' = http \ {r}
  /\ SetStore(fetchFailed(Store))
  /\ lastEvent' = StoreEvent("mountFailed", r.task, NoFrame, FALSE)
  /\ UNCHANGED <<server, mounted, tracking, runClosures, runScheduled,
               closedFor>>

\* onUnmounted
Unmount ==
  /\ mounted # Null
  /\ mounted' = Null
  /\ SetStore(stopStatusSync(Store))
  /\ lastEvent' = StoreEvent("unmount", mounted, NoFrame, TRUE)
  /\ tracking' = "cancelled"
  /\ KeepRun
  /\ UNCHANGED <<http, server>>

\* goBack: store.cleanup(); the navigation unmounts the view afterwards
GoBack ==
  /\ mounted # Null
  /\ SetStore(cleanup(Store))
  /\ lastEvent' = StoreEvent("goBack", mounted, NoFrame, TRUE)
  /\ tracking' = "cancelled"
  /\ KeepRun
  /\ UNCHANGED envVars

----------------------------------------------------------------------------
(* The result fetch of the research view.  The watcher of progress.status   *)
(* runs in the task of the callback that changed the status, and onMounted *)
(* goes on after its status fetch in the same task.                        *)

\* fetchTaskResult(taskId) is called n times in this step
FetchResult(taskId, n) ==
  /\ fetchCount + n <= MaxFetches
  /\ fetchCount' = fetchCount + n
  /\ UNCHANGED pageVars
  /\ results' = results \cup
       {[task |-> taskId, call |-> fetchCount + k, phase |-> "req",
         report |-> "null"] : k \in 1..n}

\* watch(() => store.progress.status): the calls the watcher makes in a step
Watched ==
  IF mounted # Null /\ progress'.status # progress.status
       /\ progress'.status = "completed"
    THEN 1 ELSE 0

\* onMounted after startStatusSync: the calls made for a completed task
MountedCompleted ==
  IF currentTask' # NoTask /\ currentTask'.status = "completed" THEN 1 ELSE 0

\* GET /research/{id}/result answered: the report, or an error status while
\* the task has no report
ResultAnswer(q) ==
  /\ q \in results /\ q.phase = "req"
  /\ results' = (results \ {q}) \cup
       {IF server[q.task].status = "completed"
          THEN [q EXCEPT !.phase = "resp", !.report = ReportOf(server[q.task])]
          ELSE [q EXCEPT !.phase = "rejected"]}
  /\ UNCHANGED <<storeVars, envVars, fetchCount, pageVars>>
  /\ EnvStep

ResultResolved(q) ==
  /\ q \in results /\ q.phase = "resp"
  /\ results' = results \ {q}
  /\ LET out == fetchTaskResultResolved(Store, q.task, q.report)
     IN /\ SetStore(out.store)
        /\ lastEvent' = [op |-> "result", task |-> q.task,
                         report |-> out.returned, thrown |-> out.thrown]
  /\ UNCHANGED <<envVars, fetchCount, pageVars, tracking, runClosures,
               runScheduled, closedFor>>

\* the request failed on the network, or the server answered with an error
ResultRejected(q) ==
  /\ q \in results /\ q.phase \in {"req", "rejected"}
  /\ results' = results \ {q}
  /\ LET out == fetchTaskResultRejected(Store)
     IN /\ SetStore(out.store)
        /\ lastEvent' = [op |-> "resultFailed", task |-> q.task,
                         report |-> "null", thrown |-> out.thrown]
  /\ UNCHANGED <<envVars, fetchCount, pageVars, tracking, runClosures,
               runScheduled, closedFor>>

----------------------------------------------------------------------------

Next ==
  \/ \E t \in TaskIds : ProducerStart(t) /\ UNCHANGED viewVars
  \/ \E t \in TaskIds : ProducerAdvance(t) /\ UNCHANGED viewVars
  \/ \E t \in TaskIds : ProducerComplete(t) /\ UNCHANGED viewVars
  \/ \E t \in TaskIds : ProducerFail(t) /\ UNCHANGED viewVars
  \/ \E r \in http : ServerAnswer(r) /\ UNCHANGED viewVars
  \/ \E t \in TaskIds : StartResearch(t) /\ UNCHANGED viewVars
  \/ \E r \in http, created \in BOOLEAN :
       StartResolved(r, created) /\ UNCHANGED viewVars
  \/ \E t \in timers : PollTick(t) /\ UNCHANGED viewVars
  \/ \E r \in http : PollResolved(r) /\ UNCHANGED viewVars
  \/ \E r \in http : PollFailed(r) /\ UNCHANGED viewVars
  \/ \E c \in ConnIds : OnOpen(c) /\ UNCHANGED viewVars
  \/ \E c \in ConnIds : OnMessage(c) /\ UNCHANGED viewVars
  \/ \E c \in ConnIds : OnClose(c) /\ UNCHANGED viewVars
  \/ \E created \in BOOLEAN : ReconnectFired(created) /\ UNCHANGED viewVars
  \/ \E t \in TaskIds : Mount(t) /\ UNCHANGED viewVars
  \/ \E r \in http, created \in BOOLEAN :
       MountResolved(r, created) /\ UNCHANGED viewVars
  \/ \E r \in http : MountFailed(r) /\ UNCHANGED viewVars
  \/ Unmount /\ UNCHANGED viewVars
  \/ GoBack /\ UNCHANGED viewVars

Spec == Init /\ [][Next]_vars

\* The research view with its result fetch.  The producer reports no
\* intermediate progress and a closed connection is not replaced: neither
\* bears on when the result is fetched.
NextView ==
  \/ \E t \in TaskIds : ProducerStart(t) /\ UNCHANGED viewVars
  \/ \E t \in TaskIds : ProducerComplete(t) /\ UNCHANGED viewVars
  \/ \E t \in TaskIds : ProducerFail(t) /\ UNCHANGED viewVars
  \/ \E r \in http : ServerAnswer(r) /\ UNCHANGED viewVars
  \/ \E t \in TaskIds : StartResearch(t) /\ UNCHANGED viewVars
  \/ \E r \in http, created \in BOOLEAN :
       StartResolved(r, created) /\ UNCHANGED viewVars
  \/ \E t \in timers : PollTick(t) /\ UNCHANGED viewVars
  \/ \E r \in http : PollResolved(r) /\ FetchResult(mounted, Watched)
  \/ \E c \in ConnIds : OnOpen(c) /\ UNCHANGED viewVars
  \/ \E c \in ConnIds : OnMessage(c) /\ FetchResult(mounted, Watched)
  \/ \E c \in ConnIds : OnClose(c) /\ UNCHANGED viewVars
  \/ \E t \in TaskIds : Mount(t) /\ UNCHANGED viewVars
  \/ \E r \in http, created \in BOOLEAN :
       /\ MountResolved(r, created)
       /\ FetchResult(r.task, Watched + MountedCompleted)
  \/ Unmount /\ UNCHANGED viewVars
  \/ GoBack /\ UNCHANGED viewVars
  \/ \E q \in results : ResultAnswer(q)
  \/ \E q \in results : ResultResolved(q)
  \/ \E q \in results : ResultRejected(q)

SpecView == Init /\ [][NextView]_vars

\* The push connection with every text a message event can carry
NextFrames ==
  \/ \E t \in TaskIds : ProducerStart(t) /\ UNCHANGED viewVars
  \/ \E t \in TaskIds : ProducerComplete(t) /\ UNCHANGED viewVars
  \/ \E t \in TaskIds : ProducerFail(t) /\ UNCHANGED viewVars
  \/ \E r \in http : ServerAnswer(r) /\ UNCHANGED viewVars
  \/ \E t \in TaskIds : StartResearch(t) /\ UNCHANGED viewVars
  \/ \E r \in http, created \in BOOLEAN :
       StartResolved(r, created) /\ UNCHANGED viewVars
  \/ \E t \in timers : PollTick(t) /\ UNCHANGED viewVars
  \/ \E r \in http : PollResolved(r) /\ UNCHANGED viewVars
  \/ \E c \in ConnIds : OnOpen(c) /\ UNCHANGED viewVars
  \/ \E c \in ConnIds : OnMessage(c) /\ UNCHANGED viewVars
  \/ \E c \in ConnIds, text \in HeartbeatTexts \cup MalformedTexts :
       OnMessageText(c, text) /\ UNCHANGED viewVars
  \/ \E c \in ConnIds : OnClose(c) /\ UNCHANGED viewVars
  \/ \E created \in BOOLEAN : ReconnectFired(created) /\ UNCHANGED viewVars

SpecFrames == Init /\ [][NextFrames]_vars

\* The transport failures: failed requests, error and close events.  The
\* producer reports no intermediate progress.
NextTransport ==
  \/ \E t \in TaskIds : ProducerStart(t) /\ UNCHANGED viewVars
  \/ \E t \in TaskIds : ProducerComplete(t) /\ UNCHANGED viewVars
  \/ \E t \in TaskIds : ProducerFail(t) /\ UNCHANGED viewVars
  \/ \E r \in http : ServerAnswer(r) /\ UNCHANGED viewVars
  \/ \E t \in TaskIds : StartResearch(t) /\ UNCHANGED viewVars
  \/ \E r \in http, created \in BOOLEAN :
       StartResolved(r, created) /\ UNCHANGED viewVars
  \/ \E t \in timers : PollTick(t) /\ UNCHANGED viewVars
  \/ \E r \in http : PollResolved(r) /\ UNCHANGED viewVars
  \/ \E r \in http : PollFailed(r) /\ UNCHANGED viewVars
  \/ \E c \in ConnIds : OnOpen(c) /\ UNCHANGED viewVars
  \/ \E c \in ConnIds : OnMessage(c) /\ UNCHANGED viewVars
  \/ \E c \in ConnIds : OnError(c) /\ UNCHANGED viewVars
  \/ \E c \in ConnIds : OnClose(c) /\ UNCHANGED viewVars
  \/ \E created \in BOOLEAN : ReconnectFired(created) /\ UNCHANGED viewVars
  \/ \E t \in TaskIds : Mount(t) /\ UNCHANGED viewVars
  \/ \E r \in http, created \in BOOLEAN :
       MountResolved(r, created) /\ UNCHANGED viewVars
  \/ \E r \in http : MountFailed(r) /\ UNCHANGED viewVars
  \/ Unmount /\ UNCHANGED viewVars
  \/ GoBack /\ UNCHANGED viewVars

SpecTransport == Init /\ [][NextTransport]_vars

\* A second task is submitted while the first one is tracked, and its
\* submission overlaps a poll of the first
NextSwitch ==
  \/ \E t \in SubmittedIds : ProducerStart(t) /\ UNCHANGED viewVars
  \/ \E t \in SubmittedIds : ProducerComplete(t) /\ UNCHANGED viewVars
  \/ \E r \in http : ServerAnswer(r) /\ UNCHANGED viewVars
  \/ \E t \in SubmittedIds :
       StartResearchUpTo(t, MaxOverlap) /\ UNCHANGED viewVars
  \/ \E r \in http, created \in BOOLEAN :
       StartResolved(r, created) /\ UNCHANGED viewVars
  \/ \E t \in timers : PollTick(t) /\ UNCHANGED viewVars
  \/ \E r \in http : PollResolved(r) /\ UNCHANGED viewVars
  \/ \E c \in ConnIds : OnOpen(c) /\ UNCHANGED viewVars
  \/ \E c \in ConnIds : OnMessage(c) /\ UNCHANGED viewVars
  \/ \E c \in ConnIds : OnClose(c) /\ UNCHANGED viewVars
  \/ \E created \in BOOLEAN : ReconnectFired(created) /\ UNCHANGED viewVars

InitSwitch == InitWith(SubmittedIds)
SpecSwitch == InitSwitch /\ [][NextSwitch]_vars

\* startResearch with its failures, for a first task and for a second one
\* submitted while the first is tracked or shown by the research view.  No
\* connection attempt gets as far as opening and no reconnect delay elapses.
NextStart ==
  \/ \E t \in SubmittedIds : ProducerStart(t) /\ UNCHANGED viewVars
  \/ \E t \in SubmittedIds : ProducerComplete(t) /\ UNCHANGED viewVars
  \/ \E r \in http : ServerAnswer(r) /\ UNCHANGED viewVars
  \/ \E t \in SubmittedIds : StartCalled(t, MaxInFlight) /\ UNCHANGED viewVars
  \/ \E r \in http : StartAccepted(r) /\ UNCHANGED viewVars
  \/ \E r \in http, message \in Messages :
       StartFailed(r, message) /\ UNCHANGED viewVars
  \/ \E r \in http, created \in BOOLEAN :
       StartResolved(r, created) /\ UNCHANGED viewVars
  \/ \E t \in timers : PollTick(t) /\ UNCHANGED viewVars
  \/ \E r \in http : PollResolved(r) /\ UNCHANGED viewVars
  \/ \E c \in ConnIds : OnClose(c) /\ UNCHANGED viewVars
  \/ \E t \in SubmittedIds : Mount(t) /\ UNCHANGED viewVars
  \/ \E r \in http, created \in BOOLEAN :
       MountResolved(r, created) /\ UNCHANGED viewVars
  \/ Unmount /\ UNCHANGED viewVars

SpecStart == InitSwitch /\ [][NextStart]_vars

\* The result fetch of the research view while a second task is submitted:
\* a report can arrive after the store moved on to the other task.  No push
\* connection can be created, so the tasks are tracked by polling.
NextResult ==
  \/ \E t \in SubmittedIds : ProducerStart(t) /\ UNCHANGED viewVars
  \/ \E t \in SubmittedIds : ProducerComplete(t) /\ UNCHANGED viewVars
  \/ \E r \in http : ServerAnswer(r) /\ UNCHANGED viewVars
  \/ \E t \in SubmittedIds : StartResearch(t) /\ UNCHANGED viewVars
  \/ \E r \in http : StartResolved(r, FALSE) /\ UNCHANGED viewVars
  \/ \E t \in timers : PollTick(t) /\ UNCHANGED viewVars
  \/ \E r \in http : PollResolved(r) /\ FetchResult(mounted, Watched)
  \/ \E t \in SubmittedIds : Mount(t) /\ UNCHANGED viewVars
  \/ \E r \in http :
       /\ MountResolved(r, FALSE)
       /\ FetchResult(r.task, Watched + MountedCompleted)
  \/ Unmount /\ UNCHANGED viewVars
  \/ GoBack /\ UNCHANGED viewVars
  \/ \E q \in results : ResultAnswer(q)
  \/ \E q \in results : ResultResolved(q)
  \/ \E q \in results : ResultRejected(q)

SpecResult == InitSwitch /\ [][NextResult]_vars

----------------------------------------------------------------------------
(* Navigation, login and logout, and the chat view *)

syncVars == <<storeVars, envVars, histVars, results, fetchCount>>

\* the router runs a navigation to  to : the guard, then the views
Navigated(op, to, authenticated) ==
  LET reached == navigate(to, authenticated)
  IN /\ Len(routeChanged(Chat, route, reached).loads) <= MaxLoads
     /\ route' = reached
     /\ lastNav' = [op |-> op, from |-> route, to |-> to,
                    authenticated |-> authenticated, reached |-> reached]
     /\ SetChat(routeChanged(Chat, route, reached))

\* router.push or a link: the user, switchConversation, createNewConversation
Navigate(to) ==
  /\ Navigated("navigate", to, isAuthenticated)
  /\ UNCHANGED <<token, syncVars>>

\* authApi.login or register resolved on the login page: setToken
Login(tok) ==
  /\ route.name = "Login"
  /\ ~isAuthenticated
  /\ token' = tok
  /\ UNCHANGED <<route, lastNav, chatVars, syncVars>>

\* handleLogout after authApi.logout: removeToken, router.push('/login')
Logout ==
  /\ isAuthenticated
  /\ route.name # "Login"
  /\ token' = NoToken
  /\ Navigated("logout", Location("Login", 0), FALSE)
  /\ UNCHANGED syncVars

\* loadConversations of onMounted settled (its failure is only logged):
\* onMounted goes on with loadConversation
ListSettled(i) ==
  /\ i \in DOMAIN loads /\ loads[i].kind = "list"
  /\ SetChat(loadConversation([Chat EXCEPT !.loads = RemoveAt(loads, i)],
                              conversationId))
  /\ UNCHANGED <<routerVars, syncVars>>

LoadResolved(i) ==
  /\ i \in DOMAIN loads /\ loads[i].kind = "conversation"
  /\ SetChat(loadResolved(Chat, i, conversationId))
  /\ UNCHANGED <<routerVars, syncVars>>

\* the catch of loadConversation: router.push('/').  For a 401 the response
\* interceptor removed the token before and the page is loaded from /login.
LoadFailed(i, unauthorized) ==
  /\ i \in DOMAIN loads /\ loads[i].kind = "conversation"
  /\ token' = IF unauthorized THEN NoToken ELSE token
  /\ Navigated("loadFailed",
               IF unauthorized THEN Location("Login", 0)
                               ELSE Location("Home", 0),
               isAuthenticated /\ ~unauthorized)
  /\ UNCHANGED syncVars

NextPages ==
  \/ \E to \in Targets : Navigate(to)
  \/ \E tok \in Tokens : Login(tok)
  \/ Logout
  \/ \E i \in 1..MaxLoads : ListSettled(i)
  \/ \E i \in 1..MaxLoads : LoadResolved(i)
  \/ \E i \in 1..MaxLoads, unauthorized \in BOOLEAN : LoadFailed(i, unauthorized)

SpecPages == Init /\ [][NextPages]_vars

\* Degraded mode: no connection attempt succeeds, so the reconnects run out
\* and the task is tracked by the polling timer alone.  The timer fires every
\* POLL_INTERVAL, every request is answered and every response delivered.
PollTickOverlapping == \E t \in timers : PollTickUpTo(t, MaxOverlap)
AnswerAny == \E r \in http : ServerAnswer(r)
PollResolvedAny == \E r \in http : PollResolved(r)

NextDegraded ==
  \/ \E t \in TaskIds : ProducerStart(t) /\ UNCHANGED viewVars
  \/ \E t \in TaskIds : ProducerComplete(t) /\ UNCHANGED viewVars
  \/ \E t \in TaskIds : ProducerFail(t) /\ UNCHANGED viewVars
  \/ AnswerAny /\ UNCHANGED viewVars
  \/ \E t \in TaskIds : StartResearch(t) /\ UNCHANGED viewVars
  \/ \E r \in http, created \in BOOLEAN :
       StartResolved(r, created) /\ UNCHANGED viewVars
  \/ PollTickOverlapping /\ UNCHANGED viewVars
  \/ PollResolvedAny /\ UNCHANGED viewVars
  \/ \E c \in ConnIds : OnClose(c) /\ UNCHANGED viewVars
  \/ \E created \in BOOLEAN : ReconnectFired(created) /\ UNCHANGED viewVars

SpecDegraded ==
  /\ Init /\ [][NextDegraded]_vars
  /\ WF_vars(PollTickOverlapping /\ UNCHANGED viewVars)
  /\ WF_vars(AnswerAny /\ UNCHANGED viewVars)
  /\ WF_vars(PollResolvedAny /\ UNCHANGED viewVars)


----------------------------------------------------------------------------
(* Properties *)

\* the canonical snapshot
Snapshot(s) == <<s.currentTask, s.progress>>

\* the step applied a frame of a channel: a poll response or a push frame
FrameApplied == lastEvent'.op \in {"poll", "push"}

\* the step called stopStatusSync
StopCalled ==
  /\ lastEvent'.op \in {"poll", "push", "unmount", "goBack"}
  /\ lastEvent'.stop

Rank(status) ==
  CASE status = "pending" -> 0
    [] status = "running" -> 1
    [] OTHER -> 2

OpenSockets == {c \in ConnIds : sockets[c].state = "open"}
LiveSockets == {c \in ConnIds : sockets[c].state \in {"connecting", "open"}}

\* C1. Monotonic progress: no frame of either channel, applied to the tracked
\* task, lowers the progress value of the snapshot.
C1_MonotonicProgress ==
  [][(FrameApplied /\ currentTask # NoTask /\ lastEvent'.task = currentTask.id)
       => progress'.progress >= progress.progress]_vars

\* C2. Terminal immutability: once the snapshot status is completed or failed,
\* no frame applied from either channel changes any field of the snapshot.
C2_TerminalImmutable ==
  [][(FrameApplied /\ tracking = "terminal" /\ progress.status \in Terminal)
       => UNCHANGED <<currentTask, progress>>]_vars

\* C3. The status only moves forward: a frame of either channel that reports
\* an earlier status than the one held is discarded and changes nothing.
C3_StatusForward ==
  [][(FrameApplied /\ currentTask # NoTask
        /\ Rank(lastEvent'.frame.status) < Rank(progress.status))
       => UNCHANGED <<currentTask, progress>>]_vars

\* C4. Cancellation is effective immediately: after stopStatusSync or cleanup
\* was called no poll response and no push frame changes currentTask or
\* progress, until tracking is started again.
C4_CancelEffective ==
  [][(FrameApplied /\ tracking = "cancelled")
       => UNCHANGED <<currentTask, progress>>]_vars

\* C5. After a stop condition (a terminal frame was applied, or the caller
\* stopped the synchronisation) no polling timer is active and no push
\* connection is open or being opened, until tracking is started again.
C5_NoChannelAfterStop ==
  tracking \in {"terminal", "cancelled"} => timers = {} /\ LiveSockets = {}

\* C6. Single teardown: once a stop condition took effect, every further
\* terminal signal or stopStatusSync call changes no channel state.
C6_SingleTeardown ==
  [][(StopCalled /\ tracking \in {"terminal", "cancelled"})
       => UNCHANGED <<wsConnection, pollingTimer, sockets, timers>>]_vars

\* C8. At every moment at most one polling timer is active and at most one
\* push connection is open.
C8_OneTimerOneSocket ==
  Cardinality(timers) <= 1 /\ Cardinality(OpenSockets) <= 1


C9_Idempotent ==
  /\ lastEvent.op = "poll" =>
       Snapshot(pollResolved(Store, lastEvent.frame)) = Snapshot(Store)
  /\ lastEvent.op = "push" =>
       Snapshot(onmessage(Store, lastEvent.frame)) = Snapshot(Store)

\* a poll response with progress 40 was applied while the task runs
C9_FrameApplied ==
  /\ lastEvent.op = "poll"
  /\ lastEvent.frame.status = "running" /\ lastEvent.frame.progress = 40
  /\ progress.progress = 40

C12_FailedPollSkipped ==
  /\ [][lastEvent'.op = "pollFailed" =>
         /\ UNCHANGED <<currentTask, progress, pollingTimer, timers>>
         /\ http' \subseteq http]_vars
  /\ [](lastEvent.op = "pollFailed" =>
         \A t \in timers : ENABLED (PollTick(t) /\ UNCHANGED viewVars))

\* a poll failed while the running task is tracked and the timer is active
C12_PollFailedWhileTracking ==
  /\ lastEvent.op = "pollFailed"
  /\ progress.status = "running"
  /\ pollingTimer # Null
  /\ \E t \in timers : t.id = pollingTimer

\* C13. A malformed or unparseable push frame is dropped: it changes no field
\* of the snapshot (progress and currentTask keep their values), closes no
\* channel and raises nothing to the caller.
C13_MalformedDropped ==
  [][lastEvent'.op = "malformed" =>
       UNCHANGED <<currentTask, progress, wsConnection, pollingTimer,
                   sockets, timers, error>>]_vars

\* C14. A heartbeat frame leaves the snapshot, the polling timer, the
\* connection handle and the reconnect counter unchanged.
C14_HeartbeatNoChange ==
  [][lastEvent'.op = "heartbeat" =>
       UNCHANGED <<currentTask, progress, pollingTimer, timers,
                   wsConnection, sockets, wsRetryCount>>]_vars

\* a heartbeat arrived on the connection of the handle while the task runs
C14_HeartbeatWhileRunning ==
  /\ lastEvent.op = "heartbeat"
  /\ progress.status = "running"
  /\ pollingTimer # Null /\ wsConnection # Null
  /\ sockets[wsConnection].state = "open"

C19_FailureReasonCarried ==
  (lastEvent.op \in {"poll", "push"} /\ lastEvent.frame.status = "failed"
     /\ currentTask # NoTask) =>
    /\ progress.status = "failed" /\ currentTask.status = "failed"
    /\ currentTask.error_message = ReasonOf(server[lastEvent.task])

\* C17. For one tracked task the result is fetched (fetchTaskResult) exactly
\* once, and only after the snapshot status became completed, both when the
\* completion arrives while the view is open and when the view is mounted
\* for a task that is already completed: a step that calls fetchTaskResult
\* makes the first call and leaves the status completed.
C17_ResultFetchedOnce ==
  [][fetchCount' > fetchCount =>
       fetchCount' = 1 /\ progress'.status = "completed"]_vars

\* C18. A failing result fetch is surfaced to the caller of fetchTaskResult
\* (rethrown and recorded in store.error) and leaves the status, the progress
\* and the result payload of the snapshot unchanged.
C18_ResultFailureSurfaced ==
  [][lastEvent'.op = "resultFailed" =>
       /\ lastEvent'.thrown
       /\ error' # "null"
       /\ UNCHANGED <<currentTask, progress>>]_vars

\* the result fetch of a completed task failed
C18_ResultFailedAfterCompleted ==
  /\ lastEvent.op = "resultFailed" /\ lastEvent.thrown
  /\ currentTask # NoTask /\ currentTask.status = "completed"
  /\ currentTask.report_data = "null"
  /\ error = "result failed"

\* C20. In every reachable state the result payload (currentTask.report_data)
\* is present only if the snapshot status is completed.
C20_ReportOnlyIfCompleted ==
  (currentTask # NoTask /\ currentTask.report_data # "null") =>
    (currentTask.status = "completed" /\ progress.status = "completed")

\* C15. The id of the tracked snapshot never changes: no poll response and no
\* push frame replaces or alters currentTask.id, including a response or
\* frame of a task tracked earlier.
C15_IdNeverChanges ==
  [][(FrameApplied /\ currentTask # NoTask) =>
       (currentTask' # NoTask /\ currentTask'.id = currentTask.id)]_vars

\* the reconnect attempts are used up and no connection is left
Degraded ==
  /\ wsRetryCount = MAX_WS_RETRIES
  /\ reconnects = <<>>
  /\ \A c \in ConnIds : sockets[c].state = "free"

ProducerDone == \E t \in TaskIds : server[t].status \in Terminal

\* the snapshot is terminal and both channels are stopped
Settled ==
  /\ progress.status \in Terminal
  /\ timers = {} /\ pollingTimer = Null
  /\ LiveSockets = {} /\ wsConnection = Null

\* in degraded mode a terminal status of the producer is eventually shown
\* by the snapshot, with both channels stopped
EventuallySettled ==
  (Degraded /\ tracking = "active" /\ ProducerDone) ~> Settled

\* C11. Degraded mode is live: after the reconnect attempts are exhausted the
\* task is tracked by polling alone; once the producer has reached a terminal
\* status the snapshot eventually shows a terminal status with both channels
\* stopped, and a snapshot that is terminal stays terminal.
C11_DegradedLive ==
  /\ EventuallySettled
  /\ [][(Degraded /\ Settled) => progress'.status \in Terminal]_vars

\* C23. Every reconnect attempt opens the new push connection for the same
\* task id that the closed connection was bound to.
C23_ReconnectSameTask ==
  [][(lastEvent'.op = "reconnect" /\ lastEvent'.attempted
        /\ lastEvent'.created) =>
       /\ wsConnection' # Null
       /\ sockets'[wsConnection'].task = Head(closedFor)]_vars

\* C22. Only an unexpected closure triggers a reconnect: the close event of a
\* connection the client closed itself (stopStatusSync, or connectWebSocket
\* closing the old connection) neither increments the attempt counter nor
\* schedules a reconnect.
C22_OwnClosureNoReconnect ==
  [][(lastEvent'.op = "close" /\ lastEvent'.was = "closing") =>
       UNCHANGED <<wsRetryCount, reconnects>>]_vars

\* C27. No stuck tracking: where a task is tracked, its snapshot status is
\* pending or running and tracking was not cancelled, at least one source is
\* alive: the polling timer is active, a push connection is open or being
\* opened, or a reconnect is pending.
C27_NoStuckTracking ==
  (isResearching(Store) /\ tracking # "cancelled") =>
    \/ pollingTimer # Null /\ timers # {}
    \/ LiveSockets # {}
    \/ reconnects # <<>>

\* C28. The connection handle always tracks the live connection: every push
\* connection that is open or being opened is the one wsConnection refers to.
C28_HandleTracksLive ==
  \A c \in LiveSockets : wsConnection = c

\* C21. Transport problems are never surfaced as a user-facing error: a
\* failed poll request, a push transport error, a push closure and the
\* exhaustion of the reconnect attempts all leave store.error unchanged.
C21_TransportSilent ==
  [][lastEvent'.op \in {"pollFailed", "error", "close"} =>
       error' = error]_vars

\* the closure that finds the reconnect attempts used up, with no error set
C21_ExhaustedSilently ==
  /\ lastEvent.op = "close"
  /\ lastEvent.researching /\ ~lastEvent.scheduled
  /\ wsRetryCount = MAX_WS_RETRIES
  /\ error = "null"

\* no task is tracked, or the tracked task is terminal
NotTracking(s) == s.currentTask = NoTask \/ s.currentTask.status \in Terminal

\* C24. A push-connection closure that happens while the tracked task is
\* terminal, or while no task is tracked, schedules no reconnect and leaves
\* the attempt counter unchanged.
C24_NoReconnectWhenIdle ==
  [][(lastEvent'.op = "close" /\ NotTracking(Store)) =>
       UNCHANGED <<wsRetryCount, reconnects>>]_vars

\* the connection closed after a terminal frame had stopped the channels
C24_ClosedAfterTerminal ==
  /\ lastEvent.op = "close" /\ lastEvent.was = "closing"
  /\ currentTask # NoTask /\ currentTask.status \in Terminal
  /\ reconnects = <<>> /\ wsRetryCount = 0

\* C25. When a push connection opens the attempt counter is reset to 0, so a
\* later run of closures again gets the full MAX_WS_RETRIES reconnects: the
\* run counters restart with the open event, and within a run every closure
\* up to the MAX_WS_RETRIES-th schedules a reconnect.
C25_OpenResetsCounter ==
  /\ [][lastEvent'.op = "open" =>
         wsRetryCount' = 0 /\ runClosures' = 0 /\ runScheduled' = 0]_vars
  /\ [](runClosures <= MAX_WS_RETRIES => runScheduled = runClosures)

\* the connection of the last reconnect attempt opened
C25_OpenedAfterRetries ==
  /\ lastEvent.op = "open"
  /\ lastEvent.frame.retries = MAX_WS_RETRIES
  /\ wsRetryCount = 0

\* C26. startStatusSync starts both channels together: when it returns the
\* polling timer is active for the task and the attempt counter is 0; the
\* connection, if it could be created, is connecting for the task and held by
\* the handle, and if it could not be created (the handle is null or still
\* holds the old connection, now closing) the timer is started all the same.
C26_BothChannelsStarted ==
  [][(\/ lastEvent'.op = "start"
      \/ lastEvent'.op = "mount" /\ lastEvent'.frame.status \in Active) =>
       /\ pollingTimer' # Null
       /\ timers' = {[id |-> pollingTimer', task |-> lastEvent'.task,
                      interval |-> POLL_INTERVAL]}
       /\ wsRetryCount' = 0
       /\ (wsConnection' # Null
             /\ sockets'[wsConnection'].state # "closing") =>
            sockets'[wsConnection'] =
              [state |-> "connecting", task |-> lastEvent'.task]
    ]_vars

\* tracking started although the connection could not be created
C26_StartedWithoutSocket ==
  /\ lastEvent.op = "start"
  /\ wsConnection = Null /\ LiveSockets = {}
  /\ pollingTimer # Null /\ timers # {}

C30_CounterBounded ==
  wsRetryCount \in 0..MAX_WS_RETRIES

\* the counter is at its bound while closures of two connections are handled
C30_CounterAtBound ==
  /\ wsRetryCount = MAX_WS_RETRIES
  /\ lastEvent.op = "close" /\ lastEvent.scheduled
  /\ \E c \in ConnIds : sockets[c].state \in {"connecting", "open", "closing"}

\* C31. The two views of the tracked task agree on status: whenever
\* currentTask is non-null, progress.status equals currentTask.status.
C31_ViewsAgree ==
  currentTask # NoTask => progress.status = currentTask.status

\* a push frame moved both views of the tracked task to completed
C31_PushedCompleted ==
  /\ lastEvent.op = "push" /\ lastEvent.frame.status = "completed"
  /\ currentTask # NoTask /\ currentTask.status = "completed"
  /\ progress.status = "completed"

\* C35. After cleanup returns, currentTask is null, progress equals the
\* initial snapshot {pending, 0, '', '', 0}, isResearching is false, the
\* polling timer is cleared and the connection handle is null.
C35_CleanupResets ==
  [][lastEvent'.op = "goBack" =>
       /\ currentTask' = NoTask
       /\ progress' = [status |-> "pending", progress |-> 0,
                       currentAgent |-> "", currentTask |-> "",
                       estimatedTime |-> 0]
       /\ ~isResearching(Store)'
       /\ pollingTimer' = Null /\ timers' = {}
       /\ wsConnection' = Null]_vars

\* cleanup ran while the task was tracked over a connection
C35_CleanedWhileTracking ==
  /\ lastEvent.op = "goBack"
  /\ currentTask = NoTask /\ progress.status = "pending"
  /\ timers = {} /\ wsConnection = Null
  /\ \E c \in ConnIds : sockets[c].state = "closing"
  /\ server[lastEvent.task].status = "running"

\* C33. If startResearch fails, either at submission or at the immediate
\* status fetch, then no channel is started, currentTask and progress keep
\* their previous values, store.error holds the failure message (the fixed
\* text where the failure carries none), the error is rethrown to the caller,
\* and isLoading is false again when the call ends, as it is after a success.
C33_StartFailureContained ==
  /\ [][lastEvent'.op = "startFailed" =>
         /\ lastEvent'.at \in {"submission", "status"}
         /\ UNCHANGED <<timers, pollingTimer, sockets, wsConnection,
                        reconnects, wsRetryCount>>
         /\ UNCHANGED <<currentTask, progress>>
         /\ error' = IF lastEvent'.message = "" THEN "start research failed"
                                                ELSE lastEvent'.message
         /\ lastEvent'.thrown
         /\ isLoading' = FALSE]_vars
  /\ [][lastEvent'.op = "start" => isLoading' = FALSE]_vars

\* the status fetch of a second submission failed while the first task was
\* tracked
C33_SecondStartFailed ==
  /\ lastEvent.op = "startFailed" /\ lastEvent.at = "status"
  /\ lastEvent.task = 2 /\ lastEvent.thrown
  /\ currentTask # NoTask /\ currentTask.id = 1
  /\ timers # {} /\ pollingTimer # Null
  /\ error = "Network Error" /\ isLoading = FALSE

C34_ReportAttachedToOwnTask ==
  [][lastEvent'.op = "result" =>
       /\ currentTask' =
            IF currentTask # NoTask /\ currentTask.id = lastEvent'.task
              THEN [currentTask EXCEPT !.report_data = lastEvent'.report]
              ELSE currentTask
       /\ lastEvent'.report = ReportOf(server[lastEvent'.task])
       /\ ~lastEvent'.thrown
       /\ UNCHANGED <<progress, error>>]_vars

\* the report of the first task arrived while the second task was tracked
C34_ReportOfOtherTask ==
  /\ lastEvent.op = "result" /\ lastEvent.task = 1
  /\ lastEvent.report = "report"
  /\ currentTask # NoTask /\ currentTask.id = 2
  /\ currentTask.report_data = "null"

\* C36. In the chat view, after the user switches conversations, once all
\* outstanding loads have completed the displayed conversation and message
\* list belong to the currently selected conversation id, even when the load
\* responses of two switches arrive in the opposite order of the switches.
C36_ShowsSelected ==
  (conversationId # Null /\ loads = <<>>) =>
    /\ currentConversation # NoConversation
    /\ currentConversation.id = conversationId
    /\ \A i \in DOMAIN messages : messages[i].conversation_id = conversationId

\* C37. The route guard never lets a navigation reach a route marked
\* requiresAuth while no token is stored (it redirects to Login with the
\* target path as redirect), and never lets a navigation reach the
\* guest-only Login route while a token is stored (it redirects to Home);
\* every other navigation proceeds unchanged.
C37_GuardedNavigation ==
  [][lastNav' # lastNav =>
       /\ route' =
            IF lastNav'.to.name \in {"Home", "Chat", "Research",
                                     "ReportDetail", "History"}
                 /\ token' = "null"
              THEN [name |-> "Login", param |-> 0,
                    redirect |-> [name |-> lastNav'.to.name,
                                  param |-> lastNav'.to.param]]
            ELSE IF lastNav'.to.name = "Login" /\ token' # "null"
              THEN [name |-> "Home", param |-> 0, redirect |-> NoRedirect]
            ELSE lastNav'.to
       /\ route'.name \in {"Home", "Chat", "Research", "ReportDetail",
                            "History"} => token' # "null"
       /\ route'.name = "Login" => token' = "null"]_vars

\* a navigation to a conversation without a token ended on the login page
C37_RedirectedToLogin ==
  /\ lastNav.op = "navigate" /\ lastNav.to.name = "Chat"
  /\ lastNav.from.name = "Login"
  /\ token = "null"
  /\ route.name = "Login"
  /\ route.redirect = [name |-> "Chat", param |-> lastNav.to.param]

============================================================================
